---- MODULE Spec2Model ----
(***************************************************************************)
(* Ledger state machine of the CW-20 token contract                        *)
(* (src/Rust_Implementation/CW-20/src/main.rs).                            *)
(*                                                                         *)
(* The five storage singletons of `State` are the variables.  Every arm of *)
(* `State::execute` is one action; `execute` and the methods it calls      *)
(* (`mint`, `transfer`, `update_minter`, `freeze`, `unfreeze`,             *)
(* `minter_allowed`) are operators over the current storage, computed in   *)
(* the order of the statements of the code, so that a write that precedes  *)
(* a failing check stays written.                                          *)
(*                                                                         *)
(* Option<T> is a set with at most one element: None is {}, Some(v) is     *)
(* {v}.  Uint128 is scaled down to the range 0..UintMax.  The code calls   *)
(* Api::addr_validate, which cosmwasm_std has since 0.14, and from that    *)
(* version on `+` on Uint128 panics on overflow: a sum that leaves the     *)
(* range aborts the call with the result "Panic".                          *)
(*                                                                         *)
(* The code reports every failure as StdError::generic_err(message); the   *)
(* results are named by the error kind the message stands for:             *)
(*   "Unauthorized"                                 Unauthorized           *)
(*   "Cannot mint more tokens than the minter cap"  CapExceeded            *)
(*   "Cannot hold more tokens than the cap"         CapExceeded            *)
(*   "Cannot transfer from a frozen account"        AccountFrozen          *)
(*   "Cannot send more tokens than you have"        InsufficientBalance    *)
(***************************************************************************)
EXTENDS Integers, FiniteSets, Sequences, TLC

\* Largest value of the scaled-down Uint128.
UintMax == 2

Accounts == {"alice", "bob", "carol"}

Uint == 0..UintMax

\* The amount of a Mint or Transfer message is any Uint128.
Amounts == Uint

None == {}

Some(v) == {v}

OptionUint == {None} \cup {Some(v) : v \in Uint}

\* Option::unwrap_or_default for Uint128 (default 0) and bool (default false).
unwrap_or_default(opt, default) == IF opt = None THEN default ELSE CHOOSE v \in opt : TRUE

VARIABLES
    balances,         \* BALANCES: account -> Uint128
    total_supply,     \* TOTAL_SUPPLY: Option<Uint128>
    minter,           \* MINTER: MinterResponse {minter, cap: Option<Uint128>}
    cap,              \* CAP: Option<Uint128>, None until first saved
    frozen_balances,  \* FROZEN_BALANCES: stored keys -> bool
    last              \* the last message handled by execute and its result

ledger == <<balances, total_supply, minter, cap, frozen_balances>>

vars == <<balances, total_supply, minter, cap, frozen_balances, last>>

\* Storage::may_load on a keyed bucket.
may_load(bucket, key) == IF key \in DOMAIN bucket THEN Some(bucket[key]) ELSE None

\* Storage::save on a keyed bucket.
save(bucket, key, value) == [k \in DOMAIN bucket \cup {key} |-> IF k = key THEN value ELSE bucket[k]]

\* Storage::remove on a keyed bucket.
remove(bucket, key) == [k \in DOMAIN bucket \ {key} |-> bucket[k]]

EmptyBucket == [k \in {} |-> 0]

get_cap == cap

get_minter == minter

balance(address) == unwrap_or_default(may_load(balances, address), 0)

get_total_supply == unwrap_or_default(total_supply, 0)

minter_allowed_ignores_sender(sender) == get_minter.cap # None

minter_allowed_ignores_cap(sender) == get_minter.minter = sender

minter_allowed(sender) == get_minter.minter = sender /\ get_minter.cap # None

is_frozen(address) == unwrap_or_default(may_load(frozen_balances, address), FALSE)

\* Result of a method: the error kind (or "Ok") and the storage it leaves.
Outcome(result, bals, supply) == [result |-> result, balances |-> bals, total_supply |-> supply]

\* mint with the cap compared against the supply before the mint.
mint_cap_check_without_amount(recipient, amount) ==
    LET supply == get_total_supply
        old == balance(recipient)
    IN  IF get_minter.cap # None /\ supply + amount > UintMax
        THEN Outcome("Panic", balances, total_supply)
        ELSE IF \E c \in get_minter.cap : c < supply
        THEN Outcome("CapExceeded", balances, total_supply)
        ELSE IF old + amount > UintMax
        THEN Outcome("Panic", balances, total_supply)
        ELSE Outcome("Ok", save(balances, recipient, old + amount), Some(supply + amount))

\* mint that credits the recipient and forgets the supply.
mint_without_supply_update(recipient, amount) ==
    LET supply == get_total_supply
        old == balance(recipient)
    IN  IF get_minter.cap # None /\ supply + amount > UintMax
        THEN Outcome("Panic", balances, total_supply)
        ELSE IF \E c \in get_minter.cap : c < supply + amount
        THEN Outcome("CapExceeded", balances, total_supply)
        ELSE IF old + amount > UintMax
        THEN Outcome("Panic", balances, total_supply)
        ELSE Outcome("Ok", save(balances, recipient, old + amount), total_supply)

\* mint that never compares the supply with the cap.
mint_without_cap_check(recipient, amount) ==
    LET supply == get_total_supply
        old == balance(recipient)
    IN  IF supply + amount > UintMax \/ old + amount > UintMax
        THEN Outcome("Panic", balances, total_supply)
        ELSE Outcome("Ok", save(balances, recipient, old + amount), Some(supply + amount))

\* mint whose additions wrap around the integer width.
mint_wrapping_add(recipient, amount) ==
    LET supply == get_total_supply
        old == balance(recipient)
        new_supply == (supply + amount) % (UintMax + 1)
        new_balance == (old + amount) % (UintMax + 1)
    IN  IF \E c \in get_minter.cap : c < new_supply
        THEN Outcome("CapExceeded", balances, total_supply)
        ELSE Outcome("Ok", save(balances, recipient, new_balance), Some(new_supply))

\* State::mint.  The sum in the cap check is evaluated only when the minter
\* record has a cap (map_or); each Uint128 `+` aborts on overflow.
mint(recipient, amount) ==
    LET supply == get_total_supply
        old == balance(recipient)
        credited == save(balances, recipient, old + amount)
    IN  IF get_minter.cap # None /\ supply + amount > UintMax
        THEN Outcome("Panic", balances, total_supply)
        ELSE IF \E c \in get_minter.cap : c < supply + amount
        THEN Outcome("CapExceeded", balances, total_supply)
        ELSE IF old + amount > UintMax
        THEN Outcome("Panic", balances, total_supply)
        ELSE IF supply + amount > UintMax
        THEN Outcome("Panic", credited, total_supply)
        ELSE Outcome("Ok", credited, Some(supply + amount))

\* transfer that credits the recipient without debiting the sender.
transfer_without_debit(sender, recipient, amount) ==
    LET sender_balance == balance(sender)
        new_balance == balance(recipient) + amount
    IN  IF is_frozen(sender)
        THEN Outcome("AccountFrozen", balances, total_supply)
        ELSE IF sender = recipient \/ amount = 0
        THEN Outcome("Ok", balances, total_supply)
        ELSE IF sender_balance < amount
        THEN Outcome("InsufficientBalance", balances, total_supply)
        ELSE IF new_balance > UintMax
        THEN Outcome("Panic", balances, total_supply)
        ELSE IF \E c \in get_cap : new_balance > c
        THEN Outcome("CapExceeded", balances, total_supply)
        ELSE Outcome("Ok", save(balances, recipient, new_balance), total_supply)

\* transfer that takes the no-op fast path before looking at the freeze flag.
transfer_fast_path_before_frozen_check(sender, recipient, amount) ==
    LET sender_balance == balance(sender)
        debited == save(balances, sender, sender_balance - amount)
        new_balance == unwrap_or_default(may_load(debited, recipient), 0) + amount
    IN  IF sender = recipient \/ amount = 0
        THEN Outcome("Ok", balances, total_supply)
        ELSE IF is_frozen(sender)
        THEN Outcome("AccountFrozen", balances, total_supply)
        ELSE IF sender_balance < amount
        THEN Outcome("InsufficientBalance", balances, total_supply)
        ELSE IF new_balance > UintMax
        THEN Outcome("Panic", debited, total_supply)
        ELSE IF \E c \in get_cap : new_balance > c
        THEN Outcome("CapExceeded", debited, total_supply)
        ELSE Outcome("Ok", save(debited, recipient, new_balance), total_supply)

\* transfer that checks the sender's balance before the no-op fast path.
transfer_balance_check_before_fast_path(sender, recipient, amount) ==
    LET sender_balance == balance(sender)
        debited == save(balances, sender, sender_balance - amount)
        new_balance == unwrap_or_default(may_load(debited, recipient), 0) + amount
    IN  IF is_frozen(sender)
        THEN Outcome("AccountFrozen", balances, total_supply)
        ELSE IF sender_balance < amount
        THEN Outcome("InsufficientBalance", balances, total_supply)
        ELSE IF sender = recipient \/ amount = 0
        THEN Outcome("Ok", balances, total_supply)
        ELSE IF new_balance > UintMax
        THEN Outcome("Panic", debited, total_supply)
        ELSE IF \E c \in get_cap : new_balance > c
        THEN Outcome("CapExceeded", debited, total_supply)
        ELSE Outcome("Ok", save(debited, recipient, new_balance), total_supply)

\* transfer that debits the sender without comparing balance and amount.
transfer_without_balance_check(sender, recipient, amount) ==
    LET sender_balance == balance(sender)
        debited == save(balances, sender, sender_balance - amount)
        new_balance == unwrap_or_default(may_load(debited, recipient), 0) + amount
    IN  IF is_frozen(sender)
        THEN Outcome("AccountFrozen", balances, total_supply)
        ELSE IF sender = recipient \/ amount = 0
        THEN Outcome("Ok", balances, total_supply)
        ELSE IF new_balance > UintMax
        THEN Outcome("Panic", debited, total_supply)
        ELSE IF \E c \in get_cap : new_balance > c
        THEN Outcome("CapExceeded", debited, total_supply)
        ELSE Outcome("Ok", save(debited, recipient, new_balance), total_supply)

\* transfer that rejects a recipient balance equal to the cap.
transfer_cap_check_inclusive(sender, recipient, amount) ==
    LET sender_balance == balance(sender)
        debited == save(balances, sender, sender_balance - amount)
        new_balance == unwrap_or_default(may_load(debited, recipient), 0) + amount
    IN  IF is_frozen(sender)
        THEN Outcome("AccountFrozen", balances, total_supply)
        ELSE IF sender = recipient \/ amount = 0
        THEN Outcome("Ok", balances, total_supply)
        ELSE IF sender_balance < amount
        THEN Outcome("InsufficientBalance", balances, total_supply)
        ELSE IF new_balance > UintMax
        THEN Outcome("Panic", debited, total_supply)
        ELSE IF \E c \in get_cap : new_balance >= c
        THEN Outcome("CapExceeded", debited, total_supply)
        ELSE Outcome("Ok", save(debited, recipient, new_balance), total_supply)

\* transfer that also looks at the recipient's freeze flag.
transfer_rejecting_frozen_recipient(sender, recipient, amount) ==
    LET sender_balance == balance(sender)
        debited == save(balances, sender, sender_balance - amount)
        new_balance == unwrap_or_default(may_load(debited, recipient), 0) + amount
    IN  IF is_frozen(sender) \/ is_frozen(recipient)
        THEN Outcome("AccountFrozen", balances, total_supply)
        ELSE IF sender = recipient \/ amount = 0
        THEN Outcome("Ok", balances, total_supply)
        ELSE IF sender_balance < amount
        THEN Outcome("InsufficientBalance", balances, total_supply)
        ELSE IF new_balance > UintMax
        THEN Outcome("Panic", debited, total_supply)
        ELSE IF \E c \in get_cap : new_balance > c
        THEN Outcome("CapExceeded", debited, total_supply)
        ELSE Outcome("Ok", save(debited, recipient, new_balance), total_supply)

\* State::transfer.  The sender's update is saved before the recipient's
\* update runs; the recipient's update saves nothing when its closure fails.
transfer(sender, recipient, amount) ==
    LET sender_balance == balance(sender)
        debited == save(balances, sender, sender_balance - amount)
        new_balance == unwrap_or_default(may_load(debited, recipient), 0) + amount
    IN  IF is_frozen(sender)
        THEN Outcome("AccountFrozen", balances, total_supply)
        ELSE IF sender = recipient
        THEN Outcome("Ok", balances, total_supply)
        ELSE IF amount = 0
        THEN Outcome("Ok", balances, total_supply)
        ELSE IF sender_balance < amount
        THEN Outcome("InsufficientBalance", balances, total_supply)
        ELSE IF new_balance > UintMax
        THEN Outcome("Panic", debited, total_supply)
        ELSE IF \E c \in get_cap : new_balance > c
        THEN Outcome("CapExceeded", debited, total_supply)
        ELSE Outcome("Ok", save(debited, recipient, new_balance), total_supply)

\* update_cap that leaves the CAP record as it is.
update_cap_keeping_old(new_cap) == cap

\* State::update_cap: the value saved under CAP.
update_cap(new_cap) == Some(new_cap)

\* update_minter that installs the new minter without a cap.
update_minter_without_cap(new_minter, new_cap) == [minter |-> new_minter, cap |-> None]

\* State::update_minter: the record saved under MINTER (the CAP record is
\* saved by the update_cap call, see execute).
update_minter(new_minter, new_cap) == [minter |-> new_minter, cap |-> Some(new_cap)]

\* freeze that replaces the table by the single entry.
freeze_replacing_table(address) == save(EmptyBucket, address, TRUE)

\* State::freeze.
freeze(address) == save(frozen_balances, address, TRUE)

\* unfreeze that stores false instead of removing the entry.
unfreeze_saving_false(address) == save(frozen_balances, address, FALSE)

\* State::unfreeze.
unfreeze(address) == remove(frozen_balances, address)

\* HandleMsg variants.
TransferMsg(recipient, amount) == [type |-> "Transfer", recipient |-> recipient, amount |-> amount]

MintMsg(recipient, amount) == [type |-> "Mint", recipient |-> recipient, amount |-> amount]

UpdateMinterMsg(new_minter, new_cap) == [type |-> "UpdateMinter", minter |-> new_minter, cap |-> new_cap]

FreezeMsg(address) == [type |-> "Freeze", address |-> address]

UnfreezeMsg(address) == [type |-> "Unfreeze", address |-> address]

\* What a call of execute returns and the storage it leaves.
Response(result, bals, supply, minterRecord, capRecord, frozen) ==
    [result |-> result, balances |-> bals, total_supply |-> supply,
     minter |-> minterRecord, cap |-> capRecord, frozen_balances |-> frozen]

Unauthorized == Response("Unauthorized", balances, total_supply, minter, cap, frozen_balances)

\* execute whose UpdateMinter arm rejects a cap below the current supply.
execute_validating_new_cap(sender, msg) ==
    CASE msg.type = "Transfer" ->
           LET out == transfer(sender, msg.recipient, msg.amount)
           IN  Response(out.result, out.balances, out.total_supply, minter, cap, frozen_balances)
      [] msg.type = "Mint" ->
           IF ~minter_allowed(sender)
           THEN Unauthorized
           ELSE LET out == mint(msg.recipient, msg.amount)
                IN  Response(out.result, out.balances, out.total_supply, minter, cap, frozen_balances)
      [] msg.type = "UpdateMinter" ->
           IF ~minter_allowed(sender)
           THEN Unauthorized
           ELSE LET new_cap == unwrap_or_default(msg.cap, 0)
                IN  IF new_cap < get_total_supply
                    THEN Response("CapExceeded", balances, total_supply, minter, cap, frozen_balances)
                    ELSE Response("Ok", balances, total_supply,
                                  update_minter(msg.minter, new_cap), update_cap(new_cap),
                                  frozen_balances)
      [] msg.type = "Freeze" ->
           IF ~minter_allowed(sender)
           THEN Unauthorized
           ELSE Response("Ok", balances, total_supply, minter, cap, freeze(msg.address))
      [] msg.type = "Unfreeze" ->
           IF ~minter_allowed(sender)
           THEN Unauthorized
           ELSE Response("Ok", balances, total_supply, minter, cap, unfreeze(msg.address))

\* State::execute, with env.message.sender as `sender`.  Api::addr_validate
\* is the host's; the addresses of the model are valid and canonical.
execute(sender, msg) ==
    CASE msg.type = "Transfer" ->
           LET out == transfer(sender, msg.recipient, msg.amount)
           IN  Response(out.result, out.balances, out.total_supply, minter, cap, frozen_balances)
      [] msg.type = "Mint" ->
           IF ~minter_allowed(sender)
           THEN Unauthorized
           ELSE LET out == mint(msg.recipient, msg.amount)
                IN  Response(out.result, out.balances, out.total_supply, minter, cap, frozen_balances)
      [] msg.type = "UpdateMinter" ->
           IF ~minter_allowed(sender)
           THEN Unauthorized
           ELSE LET new_cap == unwrap_or_default(msg.cap, 0)
                IN  Response("Ok", balances, total_supply,
                             update_minter(msg.minter, new_cap), update_cap(new_cap),
                             frozen_balances)
      [] msg.type = "Freeze" ->
           IF ~minter_allowed(sender)
           THEN Unauthorized
           ELSE Response("Ok", balances, total_supply, minter, cap, freeze(msg.address))
      [] msg.type = "Unfreeze" ->
           IF ~minter_allowed(sender)
           THEN Unauthorized
           ELSE Response("Ok", balances, total_supply, minter, cap, unfreeze(msg.address))

\* The message execute handled last: its kind, env.message.sender and the
\* result returned.
Handled(op, sender, result) == [op |-> op, sender |-> sender, result |-> result]

\* The minter record and the cap are installed at instantiation, with or
\* without a cap; nothing has been minted.  A balance or supply that was
\* never written is only ever read through may_load(..).unwrap_or_default(),
\* as zero: the tables start holding that zero for every account.
Init ==
    /\ balances = [account \in Accounts |-> 0]
    /\ total_supply = Some(0)
    /\ minter \in [minter : Accounts, cap : OptionUint]
    /\ cap = minter.cap
    /\ frozen_balances = EmptyBucket
    /\ last = Handled("Init", minter.minter, "Ok")

\* One action per HandleMsg variant: a call of execute, whose storage becomes
\* the state.

\* execute, HandleMsg::Transfer.
Transfer(sender, recipient, amount) ==
    \E response \in {execute(sender, TransferMsg(recipient, amount))} :
        /\ balances' = response.balances
        /\ total_supply' = response.total_supply
        /\ minter' = response.minter
        /\ cap' = response.cap
        /\ frozen_balances' = response.frozen_balances
        /\ last' = Handled("Transfer", sender, response.result)

\* execute, HandleMsg::Mint.
Mint(sender, recipient, amount) ==
    \E response \in {execute(sender, MintMsg(recipient, amount))} :
        /\ balances' = response.balances
        /\ total_supply' = response.total_supply
        /\ minter' = response.minter
        /\ cap' = response.cap
        /\ frozen_balances' = response.frozen_balances
        /\ last' = Handled("Mint", sender, response.result)

\* execute, HandleMsg::UpdateMinter.
UpdateMinter(sender, new_minter, new_cap) ==
    \E response \in {execute(sender, UpdateMinterMsg(new_minter, new_cap))} :
        /\ balances' = response.balances
        /\ total_supply' = response.total_supply
        /\ minter' = response.minter
        /\ cap' = response.cap
        /\ frozen_balances' = response.frozen_balances
        /\ last' = Handled("UpdateMinter", sender, response.result)

\* execute, HandleMsg::Freeze.
Freeze(sender, address) ==
    \E response \in {execute(sender, FreezeMsg(address))} :
        /\ balances' = response.balances
        /\ total_supply' = response.total_supply
        /\ minter' = response.minter
        /\ cap' = response.cap
        /\ frozen_balances' = response.frozen_balances
        /\ last' = Handled("Freeze", sender, response.result)

\* execute, HandleMsg::Unfreeze.
Unfreeze(sender, address) ==
    \E response \in {execute(sender, UnfreezeMsg(address))} :
        /\ balances' = response.balances
        /\ total_supply' = response.total_supply
        /\ minter' = response.minter
        /\ cap' = response.cap
        /\ frozen_balances' = response.frozen_balances
        /\ last' = Handled("Unfreeze", sender, response.result)

Next ==
    \/ \E sender \in Accounts, recipient \in Accounts, amount \in Amounts :
           Transfer(sender, recipient, amount)
    \/ \E sender \in Accounts, recipient \in Accounts, amount \in Amounts :
           Mint(sender, recipient, amount)
    \/ \E sender \in Accounts, new_minter \in Accounts, new_cap \in OptionUint :
           UpdateMinter(sender, new_minter, new_cap)
    \/ \E sender \in Accounts, address \in Accounts : Freeze(sender, address)
    \/ \E sender \in Accounts, address \in Accounts : Unfreeze(sender, address)

Spec == Init /\ [][Next]_vars

\* The ledger without handovers: every message but UpdateMinter.
NextWithoutUpdateMinter ==
    \/ \E sender \in Accounts, recipient \in Accounts, amount \in Amounts :
           Transfer(sender, recipient, amount)
    \/ \E sender \in Accounts, recipient \in Accounts, amount \in Amounts :
           Mint(sender, recipient, amount)
    \/ \E sender \in Accounts, address \in Accounts : Freeze(sender, address)
    \/ \E sender \in Accounts, address \in Accounts : Unfreeze(sender, address)

SpecWithoutUpdateMinter == Init /\ [][NextWithoutUpdateMinter]_vars

\* The ledger instantiated with a cap in the minter record.
InitWithCap == Init /\ minter.cap # None

SpecWithCap == InitWithCap /\ [][Next]_vars

TypeOK ==
    /\ DOMAIN balances = Accounts
    /\ \A a \in DOMAIN balances : balances[a] \in Uint
    /\ total_supply \in OptionUint
    /\ minter \in [minter : Accounts, cap : OptionUint]
    /\ cap \in OptionUint
    /\ DOMAIN frozen_balances \subseteq Accounts
    /\ \A a \in DOMAIN frozen_balances : frozen_balances[a] \in BOOLEAN

(***************************************************************************)
(* Properties.  Each one quantifies over every message execute can receive *)
(* in the current state, so that it is checked on every step the ledger    *)
(* can take from every reachable state.                                    *)
(***************************************************************************)

\* Balance of an account in a balance table, zero when the key is absent.
BalanceIn(bals, account) == IF account \in DOMAIN bals THEN bals[account] ELSE 0

\* Total supply held by a supply record, zero when nothing is stored.
SupplyIn(supply) == IF supply = None THEN 0 ELSE CHOOSE v \in supply : TRUE

\* Frozen flag of an account in a freeze table.
FrozenIn(frozen, account) == account \in DOMAIN frozen /\ frozen[account]

RECURSIVE SumOver(_, _)
SumOver(bals, accounts) ==
    IF accounts = {} THEN 0
    ELSE LET a == CHOOSE x \in accounts : TRUE
         IN  bals[a] + SumOver(bals, accounts \ {a})

SumOfBalances == SumOver(balances, DOMAIN balances)

\* The caller is the minter of the current record and the record has a cap.
IsAuthorizedMinter(caller) == minter.minter = caller /\ minter.cap # None

\* A response that leaves the five storage records as they are.
NothingChanged(response) ==
    /\ response.balances = balances
    /\ response.total_supply = total_supply
    /\ response.minter = minter
    /\ response.cap = cap
    /\ response.frozen_balances = frozen_balances

\* A response that leaves the minter record, the cap and the freeze table.
AdminStateUnchanged(response) ==
    /\ response.minter = minter
    /\ response.cap = cap
    /\ response.frozen_balances = frozen_balances

AdminMsgs ==
    {MintMsg(r, a) : r \in Accounts, a \in Amounts}
        \cup {UpdateMinterMsg(m, c) : m \in Accounts, c \in OptionUint}
        \cup {FreezeMsg(x) : x \in Accounts}
        \cup {UnfreezeMsg(x) : x \in Accounts}

AdminOps == {"Mint", "UpdateMinter", "Freeze", "Unfreeze"}

\* C1: in every reachable state total_supply() equals the sum of the
\* balances of all accounts.
C1_SupplyEqualsSumOfBalances == SupplyIn(total_supply) = SumOfBalances

\* C2: a transfer that fails with CapExceeded commits nothing: balances and
\* every other piece of ledger state are as before the call.
C2_CapExceededTransferCommitsNothing ==
    \A sender \in Accounts, recipient \in Accounts, amount \in Amounts :
        \A response \in {execute(sender, TransferMsg(recipient, amount))} :
            response.result = "CapExceeded" => NothingChanged(response)

\* C3: a Mint by the authorized minter with total_supply() + amount <= cap
\* (or no cap) succeeds, adds exactly amount to the total supply and to the
\* recipient's balance, and leaves every other balance, the minter record,
\* the cap and the freeze flags unchanged.
C3_MintWithinCap ==
    \A sender \in Accounts, recipient \in Accounts, amount \in Amounts :
        (/\ IsAuthorizedMinter(sender)
         /\ \A c \in minter.cap : SupplyIn(total_supply) + amount <= c)
        => \A response \in {execute(sender, MintMsg(recipient, amount))} :
               /\ response.result = "Ok"
               /\ SupplyIn(response.total_supply) = SupplyIn(total_supply) + amount
               /\ BalanceIn(response.balances, recipient) = BalanceIn(balances, recipient) + amount
               /\ \A other \in Accounts \ {recipient} :
                      BalanceIn(response.balances, other) = BalanceIn(balances, other)
               /\ AdminStateUnchanged(response)

C3_Witness ==
    /\ last.op = "Mint" /\ last.result = "Ok"
    /\ IsAuthorizedMinter(last.sender)
    /\ SupplyIn(total_supply) > 0
    /\ \E a \in Accounts, b \in Accounts :
           a # b /\ BalanceIn(balances, a) > 0 /\ BalanceIn(balances, b) > 0
    /\ \E a \in Accounts : FrozenIn(frozen_balances, a)

C5_TransferMovesAmount ==
    \A sender \in Accounts, recipient \in Accounts, amount \in Amounts :
        (/\ ~FrozenIn(frozen_balances, sender)
         /\ sender # recipient
         /\ amount > 0
         /\ amount <= BalanceIn(balances, sender)
         /\ \A c \in cap : BalanceIn(balances, recipient) + amount <= c)
        => \A response \in {execute(sender, TransferMsg(recipient, amount))} :
               /\ response.result = "Ok"
               /\ BalanceIn(response.balances, sender) = BalanceIn(balances, sender) - amount
               /\ BalanceIn(response.balances, recipient) = BalanceIn(balances, recipient) + amount
               /\ \A other \in Accounts \ {sender, recipient} :
                      BalanceIn(response.balances, other) = BalanceIn(balances, other)
               /\ SupplyIn(response.total_supply) = SupplyIn(total_supply)
               /\ AdminStateUnchanged(response)

C5_Witness ==
    /\ last.op = "Transfer" /\ last.result = "Ok"
    /\ ~FrozenIn(frozen_balances, last.sender)
    /\ last.sender # minter.minter
    /\ BalanceIn(balances, last.sender) = 0
    /\ \E b \in Accounts \ {last.sender, minter.minter} : BalanceIn(balances, b) = UintMax
    /\ SupplyIn(total_supply) = UintMax

\* C6: a transfer from a frozen sender fails with AccountFrozen and changes
\* nothing, whatever the recipient and the amount (amount 0 and sender =
\* recipient included).
C6_FrozenSenderRejected ==
    \A sender \in Accounts, recipient \in Accounts, amount \in Amounts :
        FrozenIn(frozen_balances, sender)
        => \A response \in {execute(sender, TransferMsg(recipient, amount))} :
               response.result = "AccountFrozen" /\ NothingChanged(response)

C6_Witness ==
    /\ last.op = "Transfer" /\ last.result = "AccountFrozen"
    /\ FrozenIn(frozen_balances, last.sender)
    /\ BalanceIn(balances, last.sender) > 0

\* C7: a Mint, Freeze, Unfreeze or UpdateMinter whose caller is not the
\* current authorized minter fails with Unauthorized and changes nothing.
C7_UnauthorizedAdminRejected ==
    \A sender \in Accounts, msg \in AdminMsgs :
        ~IsAuthorizedMinter(sender)
        => \A response \in {execute(sender, msg)} :
               response.result = "Unauthorized" /\ NothingChanged(response)

C7_Witness ==
    /\ last.op \in AdminOps /\ last.result = "Unauthorized"
    /\ last.sender # minter.minter
    /\ minter.cap # None
    /\ SupplyIn(total_supply) > 0

\* C8: after a successful update_minter(admin, new_minter, new_cap) the
\* minter record is exactly {new_minter, new_cap} and cap() is new_cap, for
\* every new_cap, none included.
C8_UpdateMinterInstallsRecord ==
    \A sender \in Accounts, new_minter \in Accounts, new_cap \in OptionUint :
        \A response \in {execute(sender, UpdateMinterMsg(new_minter, new_cap))} :
            response.result = "Ok"
            => /\ response.minter = [minter |-> new_minter, cap |-> new_cap]
               /\ response.cap = new_cap

\* C9: a caller is let through by Mint, Freeze, Unfreeze and UpdateMinter
\* exactly when it equals the minter of the current record and that record
\* has a cap; the minter of a record without a cap gets Unauthorized.
C9_AuthorizedIffMinterWithCap ==
    \A sender \in Accounts, msg \in AdminMsgs :
        (execute(sender, msg).result # "Unauthorized")
            <=> (minter.minter = sender /\ minter.cap # None)

C9_Witness ==
    /\ last.op \in AdminOps /\ last.result = "Unauthorized"
    /\ last.sender = minter.minter
    /\ minter.cap = None

\* C10: a transfer from a non-frozen sender with sender = recipient or
\* amount = 0 succeeds and changes nothing, whatever the amount and the
\* sender's balance (an amount above the balance included).
C10_NoOpTransfer ==
    \A sender \in Accounts, recipient \in Accounts, amount \in Amounts :
        (~FrozenIn(frozen_balances, sender) /\ (sender = recipient \/ amount = 0))
        => \A response \in {execute(sender, TransferMsg(recipient, amount))} :
               response.result = "Ok" /\ NothingChanged(response)

C10_Witness ==
    /\ last.op = "Transfer" /\ last.result = "Ok"
    /\ ~FrozenIn(frozen_balances, last.sender)
    /\ BalanceIn(balances, last.sender) = 0
    /\ SupplyIn(total_supply) = 0

\* C11: a transfer of amount > 0 from a non-frozen sender to another account
\* with balance(sender) < amount fails with InsufficientBalance and changes
\* nothing; no balance ever leaves the unsigned range (none goes below zero
\* or wraps around).
C11_InsufficientBalanceRejected ==
    /\ \A sender \in Accounts, recipient \in Accounts, amount \in Amounts :
           (/\ ~FrozenIn(frozen_balances, sender)
            /\ sender # recipient
            /\ amount > 0
            /\ BalanceIn(balances, sender) < amount)
           => \A response \in {execute(sender, TransferMsg(recipient, amount))} :
                  response.result = "InsufficientBalance" /\ NothingChanged(response)
    /\ \A account \in Accounts : BalanceIn(balances, account) \in Uint

C11_Witness ==
    /\ last.op = "Transfer" /\ last.result = "InsufficientBalance"
    /\ ~FrozenIn(frozen_balances, last.sender)
    /\ 0 < BalanceIn(balances, last.sender)
    /\ BalanceIn(balances, last.sender) < UintMax

\* C12: without UpdateMinter, once a cap is set the total supply never
\* exceeds it.
C12_SupplyWithinCap ==
    \A c \in minter.cap \cup cap : SupplyIn(total_supply) <= c

C12_Witness ==
    /\ last.op = "Mint" /\ last.result = "Ok"
    /\ \E c \in minter.cap : c > 0 /\ SupplyIn(total_supply) = c

\* C13: Freeze(X) succeeds and leaves X frozen; on an X already frozen it
\* leaves the freeze table as it is; Unfreeze(X) on an X without an entry
\* succeeds and leaves X not frozen; the freeze table never holds a false
\* entry.
C13_FreezeUnfreezeIdempotent ==
    /\ \A sender \in Accounts, x \in Accounts :
           IsAuthorizedMinter(sender)
           => /\ \A response \in {execute(sender, FreezeMsg(x))} :
                     /\ response.result = "Ok"
                     /\ FrozenIn(response.frozen_balances, x)
                     /\ FrozenIn(frozen_balances, x)
                            => response.frozen_balances = frozen_balances
              /\ \A response \in {execute(sender, UnfreezeMsg(x))} :
                     /\ response.result = "Ok"
                     /\ ~FrozenIn(response.frozen_balances, x)
                     /\ x \notin DOMAIN frozen_balances
                            => response.frozen_balances = frozen_balances
    /\ \A x \in DOMAIN frozen_balances : frozen_balances[x] = TRUE

C13_Witness ==
    /\ last.op = "Freeze" /\ last.result = "Ok"
    /\ IsAuthorizedMinter(last.sender)
    /\ \E x \in Accounts, y \in Accounts :
           x # y /\ FrozenIn(frozen_balances, x) /\ y \notin DOMAIN frozen_balances

C15_FreezeChangesOnlyTarget ==
    \A sender \in Accounts, target \in Accounts :
        \A msg \in {FreezeMsg(target), UnfreezeMsg(target)} :
            \A response \in {execute(sender, msg)} :
                response.result = "Ok"
                => /\ response.balances = balances
                   /\ response.total_supply = total_supply
                   /\ response.minter = minter
                   /\ response.cap = cap
                   /\ \A other \in Accounts \ {target} :
                          FrozenIn(response.frozen_balances, other)
                              <=> FrozenIn(frozen_balances, other)

C15_Witness ==
    /\ last.op = "Unfreeze" /\ last.result = "Ok"
    /\ SupplyIn(total_supply) > 0
    /\ \E x \in Accounts : FrozenIn(frozen_balances, x)
    /\ \E y \in Accounts : ~FrozenIn(frozen_balances, y) /\ BalanceIn(balances, y) > 0

\* C16: a successful update_minter changes only the minter record and the
\* cap: it succeeds whatever the new cap (one below the total supply or below
\* a balance included) and leaves balances, total supply and freeze flags.
C16_UpdateMinterChangesOnlyRecord ==
    \A sender \in Accounts, new_minter \in Accounts, new_cap \in OptionUint :
        IsAuthorizedMinter(sender)
        => \A response \in {execute(sender, UpdateMinterMsg(new_minter, new_cap))} :
               /\ response.result = "Ok"
               /\ response.balances = balances
               /\ response.total_supply = total_supply
               /\ response.frozen_balances = frozen_balances

C16_Witness ==
    /\ last.op = "UpdateMinter" /\ last.result = "Ok"
    /\ \E c \in cap :
           /\ c < SupplyIn(total_supply)
           /\ \E account \in Accounts : BalanceIn(balances, account) > c
    /\ \E x \in Accounts : FrozenIn(frozen_balances, x)

\* C17: without UpdateMinter no transfer fails with CapExceeded: every
\* balance is at most the total supply, which is at most the cap.
C17_TransferNeverCapExceeded ==
    \A sender \in Accounts, recipient \in Accounts, amount \in Amounts :
        execute(sender, TransferMsg(recipient, amount)).result # "CapExceeded"

C17_Witness ==
    /\ last.op = "Transfer" /\ last.result = "Ok"
    /\ BalanceIn(balances, last.sender) = 0
    /\ \E c \in cap, recipient \in Accounts \ {last.sender} :
           c > 0 /\ BalanceIn(balances, recipient) = c /\ SupplyIn(total_supply) = c

\* C18: the cap of the minter record (read by mint) and the cap record (read
\* by transfer) are equal in every reachable state, and no message leaves
\* them different.
C18_CapRecordsAgree ==
    /\ minter.cap = cap
    /\ \A sender \in Accounts, new_minter \in Accounts, new_cap \in OptionUint :
           \A response \in {execute(sender, UpdateMinterMsg(new_minter, new_cap))} :
               response.minter.cap = response.cap

C18_Witness ==
    /\ last.op = "UpdateMinter" /\ last.result = "Ok"
    /\ cap = Some(0) /\ minter.cap = Some(0)
    /\ SupplyIn(total_supply) = UintMax

\* C19: from an instantiation with a cap, exactly one identity is authorized
\* in every reachable state; a successful UpdateMinter installs the new
\* minter with a cap whatever cap was supplied, so that after a handover from
\* M to N # M the authorized identity is N and no longer M.
C19_ExactlyOneAuthorized ==
    /\ Cardinality({caller \in Accounts :
                        \E msg \in AdminMsgs :
                            execute(caller, msg).result # "Unauthorized"}) = 1
    /\ \A sender \in Accounts, new_minter \in Accounts, new_cap \in OptionUint :
           \A response \in {execute(sender, UpdateMinterMsg(new_minter, new_cap))} :
               response.result = "Ok"
               => /\ response.minter.minter = new_minter
                  /\ response.minter.cap # None

C19_Witness ==
    /\ last.op = "UpdateMinter" /\ last.result = "Ok"
    /\ last.sender # minter.minter
    /\ minter.cap # None

\* The frozen flag of the recipient plays no part in a transfer or a mint:
\* the result of a transfer is decided by the sender's flag, the balances,
\* the amount and the cap, the result of a mint by the supply, the amount and
\* the cap, and a successful one credits the recipient by the amount.
RecipientFlagIgnored ==
    /\ \A sender \in Accounts, recipient \in Accounts, amount \in Amounts :
           \A response \in {execute(sender, TransferMsg(recipient, amount))} :
           LET moved == sender # recipient /\ amount > 0
           IN  /\ response.result =
                      IF FrozenIn(frozen_balances, sender) THEN "AccountFrozen"
                      ELSE IF ~moved THEN "Ok"
                      ELSE IF BalanceIn(balances, sender) < amount THEN "InsufficientBalance"
                      ELSE IF \E c \in cap : BalanceIn(balances, recipient) + amount > c
                           THEN "CapExceeded"
                      ELSE "Ok"
               /\ (response.result = "Ok" /\ moved)
                      => BalanceIn(response.balances, recipient)
                             = BalanceIn(balances, recipient) + amount
    /\ \A sender \in Accounts, recipient \in Accounts, amount \in Amounts :
           IsAuthorizedMinter(sender)
           => \A response \in {execute(sender, MintMsg(recipient, amount))} :
                  /\ response.result =
                         IF SupplyIn(total_supply) + amount > UintMax THEN "Panic"
                         ELSE IF \E c \in minter.cap : SupplyIn(total_supply) + amount > c
                              THEN "CapExceeded"
                         ELSE "Ok"
                  /\ response.result = "Ok"
                         => BalanceIn(response.balances, recipient)
                                = BalanceIn(balances, recipient) + amount

\* A step does not lower the balance of an account that is frozen before and
\* after it.
FrozenBalanceKept ==
    \A account \in Accounts :
        (FrozenIn(frozen_balances, account) /\ FrozenIn(frozen_balances', account))
        => BalanceIn(balances', account) >= BalanceIn(balances, account)

\* C20: the frozen flag restricts only outgoing transfers: in every reachable
\* state a transfer or a mint to a frozen recipient has the result and the
\* credit it would have with the recipient not frozen, and no step lowers the
\* balance of an account that stays frozen.
C20_FreezeRestrictsOnlySender ==
    /\ []RecipientFlagIgnored
    /\ [][FrozenBalanceKept]_vars

C20_Witness ==
    /\ last.op = "Transfer" /\ last.result = "Ok"
    /\ ~FrozenIn(frozen_balances, last.sender)
    /\ BalanceIn(balances, last.sender) = 0
    /\ \E recipient \in Accounts \ {last.sender} :
           /\ FrozenIn(frozen_balances, recipient)
           /\ BalanceIn(balances, recipient) = UintMax

====
